---- MODULE Spec2Model ----
(***************************************************************************)
(* Conway's Game of Life (src/life/life.py): the Game board, its           *)
(* generation update (move), cell writes (__setitem__) and pattern         *)
(* insertion (insert), on numpy arrays.                                    *)
(*                                                                         *)
(* A numpy 2-D array is a record [rows, cols, at]: its shape and the       *)
(* function from zero-based index pairs to cell values.                    *)
(***************************************************************************)
EXTENDS Integers, Sequences, FiniteSets, TLC

VARIABLES
    size,            \* the argument of Game.__init__
    board,           \* self.board
    pc,              \* "idle" between calls, "scan" inside move's loops
    neighbourcount,  \* move's local array (line 84)
    i, j,            \* move's loop indices (lines 86-87)
    board0,          \* the grid as it was when the running move was called
    call,            \* the last constructor / __setitem__ / insert call and its outcome
    gen,             \* move calls completed since `call`
    nops,            \* calls made since construction
    pats             \* the Pattern objects made so far, in the order they were made

vars == <<size, board, pc, neighbourcount, i, j, board0, call, gen, nops, pats>>

\* the state of the Game object and of the call it is running
gameVars == <<size, board, pc, neighbourcount, i, j, board0, call, gen, nops>>

(***************************************************************************)
(* Bounds of the model.                                                    *)
(***************************************************************************)
MaxSize == 3     \* board sizes 1 .. MaxSize
MaxLive == 5     \* live cells of a seeded board
MaxPat == 3      \* pattern dimensions 1 .. MaxPat on each axis
MaxOff == 3      \* insertion centres up to MaxOff cells off the board
MaxOps == 2      \* calls in a sequence of calls
LifeSize == 6    \* board size of the oscillator and spaceship runs
MaxGen == 4      \* generations of the oscillator and spaceship runs
MaxChain == 2    \* transforms in a chain of Pattern transforms
MaxTurn == 5     \* rotate's argument is in -MaxTurn .. MaxTurn

(***************************************************************************)
(* numpy arrays.                                                           *)
(***************************************************************************)
Idx(r, c) == (0 .. r - 1) \X (0 .. c - 1)

\* np.array(<literal rows>)
FromRows(rs) ==
    [rows |-> Len(rs),
     cols |-> IF Len(rs) = 0 THEN 0 ELSE Len(rs[1]),
     at   |-> [p \in Idx(Len(rs), IF Len(rs) = 0 THEN 0 ELSE Len(rs[1]))
                 |-> rs[p[1] + 1][p[2] + 1]]]

\* np.zeros((size, size))
Zeros(n) == [rows |-> n, cols |-> n, at |-> [p \in Idx(n, n) |-> 0]]

\* a local that is not bound outside the call that owns it
NoArray == [rows |-> 0, cols |-> 0, at |-> [p \in {} |-> 0]]

RECURSIVE SumSeq(_)
SumSeq(s) == IF s = <<>> THEN 0 ELSE Head(s) + SumSeq(Tail(s))

(***************************************************************************)
(* Game.__init__                                                           *)
(***************************************************************************)
New(n) ==
    /\ size = n
    /\ board = Zeros(n)
    /\ pc = "idle"
    /\ neighbourcount = NoArray
    /\ board0 = NoArray
    /\ i = 0
    /\ j = 0
    /\ call = [op |-> "new", err |-> "none"]
    /\ gen = 0
    /\ nops = 0

(***************************************************************************)
(* Game.__setitem__: self.board[key] = value with key = (row, col).        *)
(* numpy accepts an integer index k on an axis of length n when            *)
(* -n <= k < n, a negative k counting from the end; any other k raises     *)
(* IndexError before anything is written.                                  *)
(***************************************************************************)
IndexOk(k, n) == -n <= k /\ k < n

NormIndex(k, n) == IF k < 0 THEN k + n ELSE k

\* a write indexed by the row alone: self.board[key[0]] = value
SetItemRow(key, value) ==
    /\ pc = "idle"
    /\ IF IndexOk(key[1], board.rows) /\ IndexOk(key[2], board.cols)
       THEN /\ board' = [board EXCEPT !.at =
                   [p \in DOMAIN board.at |->
                       IF p[1] = NormIndex(key[1], board.rows) THEN value
                       ELSE board.at[p]]]
            /\ call' = [op |-> "set", key |-> key, value |-> value, err |-> "none"]
       ELSE /\ board' = board
            /\ call' = [op |-> "set", key |-> key, value |-> value,
                        err |-> "IndexError"]
    /\ gen' = 0
    /\ nops' = nops + 1
    /\ UNCHANGED <<size, pc, neighbourcount, i, j, board0, pats>>

SetItem(key, value) ==
    /\ pc = "idle"
    /\ IF IndexOk(key[1], board.rows) /\ IndexOk(key[2], board.cols)
       THEN /\ board' = [board EXCEPT
                   !.at[<<NormIndex(key[1], board.rows),
                          NormIndex(key[2], board.cols)>>] = value]
            /\ call' = [op |-> "set", key |-> key, value |-> value, err |-> "none"]
       ELSE /\ board' = board
            /\ call' = [op |-> "set", key |-> key, value |-> value,
                        err |-> "IndexError"]
    /\ gen' = 0
    /\ nops' = nops + 1
    /\ UNCHANGED <<size, pc, neighbourcount, i, j, board0, pats>>

(***************************************************************************)
(* Game.insert                                                             *)
(***************************************************************************)
Max(a, b) == IF a >= b THEN a ELSE b
Min(a, b) == IF a <= b THEN a ELSE b

\* Python's slice bound on an axis of length n: a negative bound counts from
\* the end, and the result is clamped to 0 .. n
SliceBound(k, n) == IF k < 0 THEN Max(0, k + n) ELSE Min(k, n)

\* a[start:stop] on an axis of length n, as first index and length
SliceOf(start, stop, n) ==
    [lo  |-> SliceBound(start, n),
     len |-> Max(0, SliceBound(stop, n) - SliceBound(start, n))]

\* a[r0:r1, c0:c1]
SubArray(a, r0, r1, c0, c1) ==
    LET rs == SliceOf(r0, r1, a.rows)
        cs == SliceOf(c0, c1, a.cols)
    IN  [rows |-> rs.len, cols |-> cs.len,
         at   |-> [p \in Idx(rs.len, cs.len) |-> a.at[<<rs.lo + p[1], cs.lo + p[2]>>]]]

\* numpy broadcasting of a source of shape (src.rows, src.cols) into a target
\* of shape (m, n): each axis matches or the source's length is 1
Broadcasts(src, m, n) ==
    /\ (src.rows = m \/ src.rows = 1)
    /\ (src.cols = n \/ src.cols = 1)

\* a[r0:r1, c0:c1] = src, for a source that broadcasts
AssignSlice(a, r0, r1, c0, c1, src) ==
    LET rs == SliceOf(r0, r1, a.rows)
        cs == SliceOf(c0, c1, a.cols)
    IN  [a EXCEPT !.at =
            [p \in DOMAIN a.at |->
                IF /\ p[1] >= rs.lo /\ p[1] < rs.lo + rs.len
                   /\ p[2] >= cs.lo /\ p[2] < cs.lo + cs.len
                THEN src.at[<<IF src.rows = 1 THEN 0 ELSE p[1] - rs.lo,
                              IF src.cols = 1 THEN 0 ELSE p[2] - cs.lo>>]
                ELSE a.at[p]]]

\* a window centred with the ceiling half on the low side
x_startCeil(pattern, x) == Max(0, x - (pattern.rows + 1) \div 2)

\* lines 119-122
x_start(pattern, x) == Max(0, x - pattern.rows \div 2)
x_end(b, pattern, x) == Min(b.rows, x + (pattern.rows + 1) \div 2)
y_start(pattern, y) == Max(0, y - pattern.cols \div 2)
y_end(b, pattern, y) == Min(b.cols, y + (pattern.cols + 1) \div 2)

\* a pattern start clamped into the pattern
pattern_x_startClamped(pattern, x) ==
    Min(pattern.rows - 1, Max(0, pattern.rows \div 2 - x))

\* lines 124-131
pattern_x_start(pattern, x) == Max(0, pattern.rows \div 2 - x)
pattern_x_end(b, pattern, x) == Min(pattern.rows, b.rows - x + pattern.rows \div 2)
pattern_y_start(pattern, y) == Max(0, pattern.cols \div 2 - y)
pattern_y_end(b, pattern, y) == Min(pattern.cols, b.cols - y + pattern.cols \div 2)

\* the right-hand side of line 133
PatternSlice(b, pattern, x, y) ==
    SubArray(pattern, pattern_x_start(pattern, x), pattern_x_end(b, pattern, x),
                      pattern_y_start(pattern, y), pattern_y_end(b, pattern, y))

\* the shape of the left-hand side of line 133
TargetRows(b, pattern, x) == SliceOf(x_start(pattern, x), x_end(b, pattern, x), b.rows).len
TargetCols(b, pattern, y) == SliceOf(y_start(pattern, y), y_end(b, pattern, y), b.cols).len

\* line 133 raises ValueError when the shapes do not broadcast
InsertFits(b, pattern, x, y) ==
    Broadcasts(PatternSlice(b, pattern, x, y),
               TargetRows(b, pattern, x), TargetCols(b, pattern, y))

\* lines 115-135 without the Pattern object: pattern is pattern.grid
InsertGrid(pattern, location) ==
    LET x == location[1]
        y == location[2]
    IN  /\ pc = "idle"
        /\ IF InsertFits(board, pattern, x, y)
           THEN /\ board' = AssignSlice(board,
                                x_start(pattern, x), x_end(board, pattern, x),
                                y_start(pattern, y), y_end(board, pattern, y),
                                PatternSlice(board, pattern, x, y))
                /\ call' = [op |-> "insert", pattern |-> pattern,
                            location |-> location, err |-> "none"]
           ELSE /\ board' = board
                /\ call' = [op |-> "insert", pattern |-> pattern,
                            location |-> location, err |-> "ValueError"]
        /\ gen' = 0
        /\ nops' = nops + 1
        /\ UNCHANGED <<size, pc, neighbourcount, i, j, board0>>

\* insert of a Pattern that holds the grid `pattern` and is not among pats
Insert(pattern, location) == InsertGrid(pattern, location) /\ UNCHANGED pats

\* an insert that keeps the clipped slice as the pattern's grid
GridAfterInsertClipped(b, grid, x, y) == PatternSlice(b, grid, x, y)

\* pattern.grid after insert: line 115 reads it and nothing assigns it
GridAfterInsert(b, grid, x, y) == grid

\* insert of the Pattern object pats[k]
InsertPattern(k, location) ==
    /\ k \in DOMAIN pats
    /\ InsertGrid(pats[k].grid, location)
    /\ pats' = [pats EXCEPT
                  ![k].grid = GridAfterInsert(board, @, location[1], location[2])]

(***************************************************************************)
(* The module's pattern literals (lines 6-16).                             *)
(***************************************************************************)
glider == FromRows(<< <<0, 1, 0>>, <<0, 0, 1>>, <<1, 1, 1>> >>)

blinker == FromRows(<< <<0, 0, 0>>, <<1, 1, 1>>, <<0, 0, 0>> >>)

(***************************************************************************)
(* Game.move                                                               *)
(***************************************************************************)
\* a stencil that counts the cell itself
stencilFull == FromRows(<< <<1, 1, 1>>, <<1, 1, 1>>, <<1, 1, 1>> >>)

stencil == FromRows(<< <<1, 1, 1>>, <<1, 0, 1>>, <<1, 1, 1>> >>)

\* Fill with the boundary wrapped around (boundary='wrap')
FillWrap(a, r, c) == a.at[<<r % a.rows, c % a.cols>>]

\* Fill with fillvalue=1
FillOnes(a, r, c) ==
    IF r >= 0 /\ r < a.rows /\ c >= 0 /\ c < a.cols THEN a.at[<<r, c>>] ELSE 1

\* boundary='fill', fillvalue=0: a read outside the array gives 0
Fill(a, r, c) ==
    IF r >= 0 /\ r < a.rows /\ c >= 0 /\ c < a.cols THEN a.at[<<r, c>>] ELSE 0

\* scipy.signal.convolve2d(a, k, mode='same'): the full convolution
\* full[m, n] = SUM k[u, v] * a[m - u, n - v], cut to a's shape around its centre
Convolve2dSame(a, k) ==
    [rows |-> a.rows, cols |-> a.cols,
     at   |-> [p \in Idx(a.rows, a.cols) |->
                 SumSeq([t \in 1 .. k.rows * k.cols |->
                     LET u == (t - 1) \div k.cols
                         v == (t - 1) % k.cols
                     IN  k.at[<<u, v>>]
                           * Fill(a, p[1] + (k.rows - 1) \div 2 - u,
                                     p[2] + (k.cols - 1) \div 2 - v)])]]

\* a count taken from the grid as the scan has left it so far
ScanCountLive(b, nc, r, c) == Convolve2dSame(b, stencil).at[<<r, c>>]

\* the count the scan reads for cell (r, c): neighbourcount[i, j]
ScanCount(b, nc, r, c) == nc.at[<<r, c>>]

\* the own-cell state the scan reads for cell (r, c): self.board[i, j]
ScanCell(b, r, c) == b.at[<<r, c>>]

\* a rule that stores the count in a live cell
CellRuleCount(b, nc, r, c) ==
    IF ScanCount(b, nc, r, c) = 3
         \/ (ScanCount(b, nc, r, c) = 2 /\ ScanCell(b, r, c) # 0)
    THEN ScanCount(b, nc, r, c) ELSE 0

\* a rule without the survival clause
CellRuleBirthOnly(b, nc, r, c) ==
    IF ScanCount(b, nc, r, c) = 3 THEN 1 ELSE 0

\* a rule that keeps a live cell with two neighbours or fewer
CellRuleLonely(b, nc, r, c) ==
    IF ScanCount(b, nc, r, c) = 3
         \/ (ScanCount(b, nc, r, c) <= 2 /\ ScanCell(b, r, c) # 0)
    THEN 1 ELSE 0

\* lines 88-91: the value written to cell (r, c)
CellRule(b, nc, r, c) ==
    IF ScanCount(b, nc, r, c) = 3
         \/ (ScanCount(b, nc, r, c) = 2 /\ ScanCell(b, r, c) # 0)
    THEN 1 ELSE 0

MoveBegin ==
    /\ pc = "idle"
    /\ neighbourcount' = Convolve2dSame(board, stencil)
    /\ board0' = board
    /\ i' = 0
    /\ j' = 0
    /\ pc' = "scan"
    /\ nops' = nops + 1
    /\ UNCHANGED <<size, board, call, gen, pats>>

\* a scan that starts the same row again at the end of a row
MoveCellSameRow ==
    /\ pc = "scan"
    /\ i < board.rows
    /\ board' = [board EXCEPT !.at[<<i, j>>] = CellRule(board, neighbourcount, i, j)]
    /\ IF j + 1 < board.cols
       THEN i' = i /\ j' = j + 1
       ELSE i' = i /\ j' = 0
    /\ UNCHANGED <<size, pc, neighbourcount, board0, call, gen, nops, pats>>

MoveCell ==
    /\ pc = "scan"
    /\ i < board.rows
    /\ board' = [board EXCEPT !.at[<<i, j>>] = CellRule(board, neighbourcount, i, j)]
    /\ IF j + 1 < board.cols
       THEN i' = i /\ j' = j + 1
       ELSE i' = i + 1 /\ j' = 0
    /\ UNCHANGED <<size, pc, neighbourcount, board0, call, gen, nops, pats>>

MoveEnd ==
    /\ pc = "scan"
    /\ i >= board.rows
    /\ pc' = "idle"
    /\ neighbourcount' = NoArray
    /\ board0' = NoArray
    /\ i' = 0
    /\ j' = 0
    /\ gen' = gen + 1
    /\ UNCHANGED <<size, board, call, nops, pats>>

(***************************************************************************)
(* Boards the program can hold: every 0/1 grid is reached from a new       *)
(* board by cell writes.                                                   *)
(***************************************************************************)
LiveCells(b) == {p \in DOMAIN b.at : b.at[p] # 0}

BoardWith(n, live) ==
    [rows |-> n, cols |-> n, at |-> [p \in Idx(n, n) |-> IF p \in live THEN 1 ELSE 0]]

SeededBoards(n) ==
    {BoardWith(n, live) : live \in {s \in SUBSET Idx(n, n) : Cardinality(s) <= MaxLive}}

InitMove ==
    /\ size \in 1 .. MaxSize
    /\ board \in SeededBoards(size)
    /\ pc = "idle"
    /\ neighbourcount = NoArray
    /\ board0 = NoArray
    /\ i = 0
    /\ j = 0
    /\ call = [op |-> "seeded"]
    /\ gen = 0
    /\ nops = 0
    /\ pats = <<>>

NextMove ==
    \/ (gen = 0 /\ MoveBegin)
    \/ MoveCell
    \/ MoveEnd

SpecMove == InitMove /\ [][NextMove]_vars

(***************************************************************************)
(* Pattern.  Each Pattern object is a record: grid is self.grid; op, from  *)
(* and n record how the object was made (the method, the index in pats of  *)
(* its receiver, rotate's argument).  The grids the transforms return are  *)
(* numpy views on the receiver's memory; no operation of the program       *)
(* writes through a Pattern's grid.                                        *)
(***************************************************************************)
\* the rows reversed where the columns should be
RowsReversedAsCols(a) ==
    [rows |-> a.rows, cols |-> a.cols,
     at   |-> [p \in Idx(a.rows, a.cols) |-> a.at[<<p[1], a.cols - 1 - p[2]>>]]]

\* a[::-1]
RowsReversed(a) ==
    [rows |-> a.rows, cols |-> a.cols,
     at   |-> [p \in Idx(a.rows, a.cols) |-> a.at[<<a.rows - 1 - p[1], p[2]>>]]]

\* the columns rolled by one instead of reversed
ColsRolled(a) ==
    [rows |-> a.rows, cols |-> a.cols,
     at   |-> [p \in Idx(a.rows, a.cols) |-> a.at[<<p[1], (p[2] + 1) % a.cols>>]]]

\* a[:, ::-1]
ColsReversed(a) ==
    [rows |-> a.rows, cols |-> a.cols,
     at   |-> [p \in Idx(a.rows, a.cols) |-> a.at[<<p[1], a.cols - 1 - p[2]>>]]]

\* np.transpose(a)
Transpose(a) ==
    [rows |-> a.cols, cols |-> a.rows,
     at   |-> [p \in Idx(a.cols, a.rows) |-> a.at[<<p[2], p[1]>>]]]

\* np.flip(a, axis), as np.rot90 uses it
Flip(a, axis) ==
    [rows |-> a.rows, cols |-> a.cols,
     at   |-> [p \in Idx(a.rows, a.cols) |->
                 IF axis = 0 THEN a.at[<<a.rows - 1 - p[1], p[2]>>]
                 ELSE a.at[<<p[1], a.cols - 1 - p[2]>>]]]

\* rot90 without its k %= 4
Rot90NoMod(a, k) ==
    CASE k = 0 -> a
      [] k = 2 -> Flip(Flip(a, 0), 1)
      [] k = 1 -> Transpose(Flip(a, 1))
      [] OTHER -> Flip(Transpose(a), 1)

\* rot90 turning clockwise
Rot90Clockwise(a, k) ==
    CASE k % 4 = 0 -> a
      [] k % 4 = 2 -> Flip(Flip(a, 0), 1)
      [] k % 4 = 1 -> Flip(Transpose(a), 1)
      [] OTHER -> Transpose(Flip(a, 1))

\* np.rot90(a, k): k %= 4, then one branch for each of 0, 2, 1 and 3
Rot90(a, k) ==
    CASE k % 4 = 0 -> a
      [] k % 4 = 2 -> Flip(Flip(a, 0), 1)
      [] k % 4 = 1 -> Transpose(Flip(a, 1))
      [] OTHER -> Flip(Transpose(a), 1)

\* Pattern.__init__, with how the object was made
PatternObj(grid, op, from, n) == [grid |-> grid, op |-> op, from |-> from, n |-> n]

\* Pattern(grid) called from outside the class
Construct(grid) == PatternObj(grid, "init", 0, 0)

\* a flip_vertical that reverses the receiver's own grid and returns the receiver
FlipVerticalInPlace(k) ==
    /\ k \in DOMAIN pats
    /\ pats' = [pats EXCEPT ![k].grid = RowsReversed(@)]
    /\ UNCHANGED gameVars

FlipVertical(k) ==
    /\ k \in DOMAIN pats
    /\ pats' = Append(pats, PatternObj(RowsReversed(pats[k].grid), "flip_vertical", k, 0))
    /\ UNCHANGED gameVars

FlipHorizontal(k) ==
    /\ k \in DOMAIN pats
    /\ pats' = Append(pats, PatternObj(ColsReversed(pats[k].grid), "flip_horizontal", k, 0))
    /\ UNCHANGED gameVars

FlipDiag(k) ==
    /\ k \in DOMAIN pats
    /\ pats' = Append(pats, PatternObj(Transpose(pats[k].grid), "flip_diag", k, 0))
    /\ UNCHANGED gameVars

Rotate(k, n) ==
    /\ k \in DOMAIN pats
    /\ pats' = Append(pats, PatternObj(Rot90(pats[k].grid, n), "rotate", k, n))
    /\ UNCHANGED gameVars

\* move runs to its end once called: the interpreter keeps executing the
\* loops of lines 86-91 and the return
SpecMoveFair == SpecMove /\ WF_vars(MoveCell) /\ WF_vars(MoveEnd)

(***************************************************************************)
(* Any sequence of calls on a new board.                                   *)
(***************************************************************************)
Near(n) == (-1 .. n) \X (-1 .. n)

Literals == {glider, blinker}

Init == pats = <<>> /\ \E n \in 1 .. MaxSize : New(n)

Next ==
    \/ /\ nops < MaxOps
       /\ \E key \in Near(size), value \in {0, 1} : SetItem(key, value)
    \/ /\ nops < MaxOps
       /\ \E pattern \in Literals, location \in Near(size) : Insert(pattern, location)
    \/ (nops < MaxOps /\ MoveBegin)
    \/ MoveCell
    \/ MoveEnd

Spec == Init /\ [][Next]_vars

(***************************************************************************)
(* One cell write or one insert, with any key or any small pattern and      *)
(* centre on or around the board, on an all-dead or an all-live board.     *)
(***************************************************************************)
Uniform(r, c, v) == [rows |-> r, cols |-> c, at |-> [p \in Idx(r, c) |-> v]]

OneLive(r, c, q) ==
    [rows |-> r, cols |-> c, at |-> [p \in Idx(r, c) |-> IF p = q THEN 1 ELSE 0]]

PatternsOfShape(r, c) ==
    {Uniform(r, c, 0), Uniform(r, c, 1)} \cup {OneLive(r, c, q) : q \in Idx(r, c)}

Patterns ==
    Literals \cup UNION {PatternsOfShape(r, c) : r \in 1 .. MaxPat, c \in 1 .. MaxPat}

Centres(n) == (-MaxOff .. n - 1 + MaxOff) \X (-MaxOff .. n - 1 + MaxOff)

Keys(n) == (-n - 1 .. n) \X (-n - 1 .. n)

InitCall ==
    /\ size \in 1 .. MaxSize
    /\ board \in {Uniform(size, size, 0), Uniform(size, size, 1)}
    /\ pc = "idle"
    /\ neighbourcount = NoArray
    /\ board0 = NoArray
    /\ i = 0
    /\ j = 0
    /\ call = [op |-> "seeded"]
    /\ gen = 0
    /\ nops = 0
    /\ pats = <<>>

NextCall ==
    \/ /\ nops = 0
       /\ \E key \in Keys(size), value \in {0, 1} : SetItem(key, value)
    \/ /\ nops = 0
       /\ \E pattern \in Patterns, location \in Centres(size) : Insert(pattern, location)

SpecCall == InitCall /\ [][NextCall]_vars

(***************************************************************************)
(* A literal pattern on a new board, then generations.                     *)
(***************************************************************************)
InitLife == pats = <<>> /\ New(LifeSize)

NextLife ==
    \/ /\ nops = 0
       /\ \E pattern \in Literals, location \in Idx(size, size) : Insert(pattern, location)
    \/ (nops > 0 /\ gen < MaxGen /\ MoveBegin)
    \/ MoveCell
    \/ MoveEnd

SpecLife == InitLife /\ [][NextLife]_vars

(***************************************************************************)
(* A chain of transforms on a Pattern made from any small grid, each       *)
(* transform called on the result of the one before.                       *)
(***************************************************************************)
Turns == -MaxTurn .. MaxTurn

InitPattern ==
    /\ New(1)
    /\ \E grid \in Patterns : pats = <<Construct(grid)>>

NextPattern ==
    \/ (Len(pats) <= MaxChain /\ FlipVertical(Len(pats)))
    \/ (Len(pats) <= MaxChain /\ FlipHorizontal(Len(pats)))
    \/ (Len(pats) <= MaxChain /\ FlipDiag(Len(pats)))
    \/ (Len(pats) <= MaxChain /\ \E n \in Turns : Rotate(Len(pats), n))

SpecPattern == InitPattern /\ [][NextPattern]_vars

(***************************************************************************)
(* Any sequence of calls on a new board, the inserts being inserts of one  *)
(* Pattern object made from a literal.                                     *)
(***************************************************************************)
InitStamp ==
    /\ \E n \in 1 .. MaxSize : New(n)
    /\ \E grid \in Literals : pats = <<Construct(grid)>>

NextStamp ==
    \/ /\ nops < MaxOps
       /\ \E key \in Near(size), value \in {0, 1} : SetItem(key, value)
    \/ /\ nops < MaxOps
       /\ \E location \in Near(size) : InsertPattern(1, location)
    \/ (nops < MaxOps /\ MoveBegin)
    \/ MoveCell
    \/ MoveEnd

SpecStamp == InitStamp /\ [][NextStamp]_vars

(***************************************************************************)
(* The rules of Life stated directly, for the properties below.            *)
(***************************************************************************)
Adjacent(p, q) ==
    /\ p # q
    /\ p[1] - q[1] \in {-1, 0, 1}
    /\ p[2] - q[2] \in {-1, 0, 1}

\* live cells among the 8 positions around p; positions off the grid hold none
LiveNeighbours(b, p) ==
    Cardinality({q \in DOMAIN b.at : Adjacent(p, q) /\ b.at[q] = 1})

NextGeneration(b) ==
    [b EXCEPT !.at =
        [p \in DOMAIN b.at |->
            IF LiveNeighbours(b, p) = 3 \/ (LiveNeighbours(b, p) = 2 /\ b.at[p] = 1)
            THEN 1 ELSE 0]]

ScanDone == pc = "scan" /\ i >= board.rows

Scanning == pc = "scan" /\ i < board.rows

\* the board of the given size whose live cells are the pattern's live cells,
\* the pattern's cell (rows \div 2, cols \div 2) on (r, c)
Placed(n, pattern, r, c) ==
    BoardWith(n, {q \in Idx(n, n) :
        \E p \in DOMAIN pattern.at :
            /\ pattern.at[p] = 1
            /\ q = <<r - pattern.rows \div 2 + p[1], c - pattern.cols \div 2 + p[2]>>})

\* a step that is a completed insert call
InsertStep == pc' = "idle" /\ nops' = nops + 1 /\ call'.op = "insert"

\* the pattern cell that the insert of `pattern` at `location` maps on board cell q
SourceOf(pattern, location, q) ==
    <<q[1] - (location[1] - pattern.rows \div 2),
      q[2] - (location[2] - pattern.cols \div 2)>>

\* no pattern cell maps onto a cell of a board of size n
WindowOff(pattern, location, n) ==
    \/ location[1] + (pattern.rows + 1) \div 2 <= 0
    \/ location[1] - pattern.rows \div 2 >= n
    \/ location[2] + (pattern.cols + 1) \div 2 <= 0
    \/ location[2] - pattern.cols \div 2 >= n

(***************************************************************************)
(* C1: when move has scanned the whole grid, every cell is alive exactly   *)
(* when its count of live neighbours in the grid before the call was 3,    *)
(* or was 2 and the cell was alive; cells off the grid count as dead.      *)
(***************************************************************************)
C1_AdvanceRule == ScanDone => board = NextGeneration(board0)

\* a finished scan of a board of size 3 or more with a birth, a survival and
\* a death by overcrowding
C1_Witness ==
    /\ ScanDone
    /\ size >= 3
    /\ \E p \in DOMAIN board.at : board0.at[p] = 0 /\ board.at[p] = 1
    /\ \E p \in DOMAIN board.at : board0.at[p] = 1 /\ board.at[p] = 1
    /\ \E p \in DOMAIN board.at :
          board0.at[p] = 1 /\ board.at[p] = 0 /\ LiveNeighbours(board0, p) >= 4

(***************************************************************************)
(* C2: at every step of move's scan, the count and the own-cell state      *)
(* read for the cell being decided are those of the grid before the call,  *)
(* whatever has been written earlier in the scan.                          *)
(***************************************************************************)
C2_ScanReadsStartState ==
    Scanning =>
        /\ ScanCount(board, neighbourcount, i, j) = LiveNeighbours(board0, <<i, j>>)
        /\ ScanCell(board, i, j) = board0.at[<<i, j>>]

\* a scan step at a cell one of whose neighbours the scan has already changed
C2_Witness ==
    /\ Scanning
    /\ LiveNeighbours(board, <<i, j>>) # LiveNeighbours(board0, <<i, j>>)

(***************************************************************************)
(* C3: an insert leaves in each board cell the pattern cell that maps onto *)
(* it, pattern cell (p, q) mapping onto (x - rows \div 2 + p,              *)
(* y - cols \div 2 + q), and leaves every other board cell as it was.      *)
(***************************************************************************)
C3_InsertCopiesClipped ==
    [][InsertStep =>
        /\ DOMAIN board'.at = DOMAIN board.at
        /\ \A q \in DOMAIN board.at :
              LET src == SourceOf(call'.pattern, call'.location, q)
              IN  board'.at[q] = IF src \in DOMAIN call'.pattern.at
                                 THEN call'.pattern.at[src]
                                 ELSE board.at[q]]_vars

\* an insert of a pattern with two rows across the top edge that has changed
\* some cells of the board and left others
C3_Witness ==
    /\ call.op = "insert"
    /\ call.err = "none"
    /\ call.pattern.rows = 2
    /\ call.location[1] = 0
    /\ LiveCells(board) \notin {{}, DOMAIN board.at}

(***************************************************************************)
(* C4: no insert raises an error, wherever the centre is.                  *)
(***************************************************************************)
C4_InsertNeverRaises == call.op = "insert" => call.err = "none"

(***************************************************************************)
(* C5: an insert none of whose pattern cells maps onto a board cell        *)
(* leaves the board as it was.                                             *)
(***************************************************************************)
C5_FullClipNoChange ==
    [][(InsertStep /\ WindowOff(call'.pattern, call'.location, size))
          => board' = board]_vars

\* an insert, off the board, of a pattern with a live cell into a dead board
C5_Witness ==
    /\ call.op = "insert"
    /\ WindowOff(call.pattern, call.location, size)
    /\ LiveCells(call.pattern) # {}
    /\ LiveCells(board) = {}
    /\ call.location[1] < 0
    /\ size >= 2

(***************************************************************************)
(* C6: every cell write with a row or a column outside 0 .. size - 1       *)
(* raises an error.                                                        *)
(***************************************************************************)
C6_SetOutOfRangeRaises ==
    (/\ call.op = "set"
     /\ \/ call.key[1] \notin 0 .. size - 1
        \/ call.key[2] \notin 0 .. size - 1)
        => call.err = "IndexError"

(***************************************************************************)
(* C7: after any sequence of cell writes of 0 or 1, inserts of 0/1         *)
(* patterns and generations on a new board, the board is size x size and   *)
(* every cell is 0 or 1.                                                   *)
(***************************************************************************)
C7_CellsBinary ==
    /\ board.rows = size
    /\ board.cols = size
    /\ DOMAIN board.at = Idx(size, size)
    /\ \A p \in DOMAIN board.at : board.at[p] \in {0, 1}

\* a board with live cells after an insert and a generation
C7_Witness ==
    /\ pc = "idle"
    /\ call.op = "insert"
    /\ gen = 1
    /\ LiveCells(board) # {}

(***************************************************************************)
(* C8: the blinker inserted on a new board at a centre one cell or more    *)
(* from every edge is the vertical blinker at that centre after one        *)
(* generation and the board as inserted after two.                         *)
(***************************************************************************)
blinkerVertical == FromRows(<< <<0, 1, 0>>, <<0, 1, 0>>, <<0, 1, 0>> >>)

BlinkerRun ==
    /\ pc = "idle"
    /\ call.op = "insert"
    /\ call.pattern = blinker
    /\ call.location[1] \in 1 .. size - 2
    /\ call.location[2] \in 1 .. size - 2

C8_BlinkerPeriod2 ==
    BlinkerRun =>
        /\ gen = 0 => board = Placed(size, blinker, call.location[1], call.location[2])
        /\ gen = 1 => board = Placed(size, blinkerVertical,
                                     call.location[1], call.location[2])
        /\ gen = 2 => board = Placed(size, blinker, call.location[1], call.location[2])

\* two generations after the insert of a blinker
C8_Witness == BlinkerRun /\ gen = 2

(***************************************************************************)
(* C9: the glider inserted on a new board at centre (r, c), with the four  *)
(* rows r-1 .. r+2 and the four columns c-1 .. c+2 it passes through on    *)
(* the board, is after four generations the glider at centre (r+1, c+1).   *)
(***************************************************************************)
GliderRun ==
    /\ pc = "idle"
    /\ call.op = "insert"
    /\ call.pattern = glider
    /\ call.location[1] \in 1 .. size - 3
    /\ call.location[2] \in 1 .. size - 3

C9_GliderTranslates ==
    (GliderRun /\ gen = 4) =>
        board = Placed(size, glider, call.location[1] + 1, call.location[2] + 1)

\* four generations after the insert of a glider that stays clear of the edges
C9_Witness ==
    /\ GliderRun
    /\ gen = 4
    /\ call.location[1] \in 2 .. size - 4
    /\ call.location[2] \in 2 .. size - 4

(***************************************************************************)
(* C10: a new board, of any size, is all-dead after any number of          *)
(* generations.                                                            *)
(***************************************************************************)
C10_NoSpontaneousGeneration == call.op = "new" => LiveCells(board) = {}

\* a new board of size 3 or more after two generations
C10_Witness ==
    /\ call.op = "new"
    /\ pc = "idle"
    /\ gen >= 2
    /\ size >= 3

(***************************************************************************)
(* C11: a board whose only live cell is one cell, wherever it is, is       *)
(* all-dead when move has scanned it.                                      *)
(***************************************************************************)
C11_LoneCellDies ==
    (ScanDone /\ Cardinality(LiveCells(board0)) = 1) => LiveCells(board) = {}

\* a finished scan of a board whose only live cell was a corner
C11_Witness ==
    /\ ScanDone
    /\ size >= 2
    /\ LiveCells(board0) = {<<0, 0>>}

(***************************************************************************)
(* C17: a cell write with row and column in 0 .. size - 1 and value 0 or 1 *)
(* raises nothing, leaves the value in that cell and leaves every other    *)
(* cell as it was.                                                         *)
(***************************************************************************)
SetStep == pc' = "idle" /\ nops' = nops + 1 /\ call'.op = "set"

C17_SetWritesOneCell ==
    [][(SetStep /\ call'.key \in Idx(size, size) /\ call'.value \in {0, 1}) =>
          /\ call'.err = "none"
          /\ DOMAIN board'.at = DOMAIN board.at
          /\ \A q \in DOMAIN board.at :
                board'.at[q] = IF q = call'.key THEN call'.value ELSE board.at[q]]_vars

\* a write, on a board of several cells, that has changed its cell
C17_Witness ==
    /\ call.op = "set"
    /\ call.key \in Idx(size, size)
    /\ size >= 2
    /\ LiveCells(board) \notin {{}, DOMAIN board.at}

(***************************************************************************)
(* Pattern transforms stated directly, for the properties below.           *)
(***************************************************************************)
\* one quarter-turn counterclockwise: cell (i, j) is g[j][C - 1 - i]
TurnLeft(g) ==
    [rows |-> g.cols, cols |-> g.rows,
     at   |-> [p \in Idx(g.cols, g.rows) |-> g.at[<<p[2], g.cols - 1 - p[1]>>]]]

RECURSIVE QuarterTurns(_, _)
QuarterTurns(g, m) == IF m = 0 THEN g ELSE TurnLeft(QuarterTurns(g, m - 1))

\* the objects made by a transform, and the grid of the receiver of each
Made == 2 .. Len(pats)

Receiver(k) == pats[pats[k].from].grid

\* the objects made by a transform of the result of a transform
MadeOfMade == {k \in Made : pats[k].from \in Made}

\* the first Pattern holds a grid that no flip or turn maps to itself
Lopsided ==
    /\ pats[1].grid.rows = 2
    /\ pats[1].grid.cols = 3
    /\ LiveCells(pats[1].grid) = {<<0, 0>>}

(***************************************************************************)
(* C12: rotate(n) is n mod 4 quarter-turns counterclockwise for every      *)
(* integer n, so rotate(4) and rotate(0) return the receiver's grid and    *)
(* rotate(-1) returns what rotate(3) returns.                              *)
(***************************************************************************)
C12_RotateModulo4 ==
    \A k \in Made :
        pats[k].op = "rotate" =>
            /\ pats[k].grid = QuarterTurns(Receiver(k), pats[k].n % 4)
            /\ pats[k].n \in {0, 4} => pats[k].grid = Receiver(k)

\* rotate(4) then rotate(-1) on a lopsided grid
C12_Witness ==
    /\ Len(pats) = 3
    /\ Lopsided
    /\ pats[2].op = "rotate" /\ pats[2].n = 4
    /\ pats[3].op = "rotate" /\ pats[3].n = -1

(***************************************************************************)
(* C13: flip_horizontal of the result of flip_horizontal has the           *)
(* dimensions and the cells of the first receiver.                         *)
(***************************************************************************)
C13_FlipHorizontalInvolution ==
    \A k \in MadeOfMade :
        (pats[k].op = "flip_horizontal" /\ pats[pats[k].from].op = "flip_horizontal")
            => pats[k].grid = Receiver(pats[k].from)

\* flip_horizontal twice on a lopsided grid
C13_Witness ==
    /\ Len(pats) = 3
    /\ Lopsided
    /\ pats[2].op = "flip_horizontal"
    /\ pats[3].op = "flip_horizontal"
    /\ pats[2].grid # pats[1].grid

(***************************************************************************)
(* C14: for an R x C grid g, flip_vertical gives the R x C grid with       *)
(* g[R-1-i][j] in cell (i, j), flip_horizontal the R x C grid with         *)
(* g[i][C-1-j], flip_diag the C x R grid with g[j][i], rotate(1) the C x R *)
(* grid with g[j][C-1-i]; rotate(n) swaps the dimensions for odd n and     *)
(* keeps them for even n.                                                  *)
(***************************************************************************)
C14_TransformCells ==
    \A k \in Made :
        LET g == Receiver(k)
            h == pats[k].grid
        IN  /\ pats[k].op = "flip_vertical" =>
                /\ h.rows = g.rows /\ h.cols = g.cols
                /\ DOMAIN h.at = Idx(g.rows, g.cols)
                /\ \A p \in DOMAIN h.at : h.at[p] = g.at[<<g.rows - 1 - p[1], p[2]>>]
            /\ pats[k].op = "flip_horizontal" =>
                /\ h.rows = g.rows /\ h.cols = g.cols
                /\ DOMAIN h.at = Idx(g.rows, g.cols)
                /\ \A p \in DOMAIN h.at : h.at[p] = g.at[<<p[1], g.cols - 1 - p[2]>>]
            /\ pats[k].op = "flip_diag" =>
                /\ h.rows = g.cols /\ h.cols = g.rows
                /\ DOMAIN h.at = Idx(g.cols, g.rows)
                /\ \A p \in DOMAIN h.at : h.at[p] = g.at[<<p[2], p[1]>>]
            /\ (pats[k].op = "rotate" /\ pats[k].n = 1) =>
                /\ h.rows = g.cols /\ h.cols = g.rows
                /\ DOMAIN h.at = Idx(g.cols, g.rows)
                /\ \A p \in DOMAIN h.at : h.at[p] = g.at[<<p[2], g.cols - 1 - p[1]>>]
            /\ (pats[k].op = "rotate" /\ pats[k].n % 2 = 1) =>
                (h.rows = g.cols /\ h.cols = g.rows)
            /\ (pats[k].op = "rotate" /\ pats[k].n % 2 = 0) =>
                (h.rows = g.rows /\ h.cols = g.cols)

\* rotate(1) of a lopsided grid, then flip_diag
C14_Witness ==
    /\ Len(pats) = 3
    /\ Lopsided
    /\ pats[2].op = "rotate" /\ pats[2].n = 1
    /\ pats[3].op = "flip_diag"

(***************************************************************************)
(* C15: every transform adds one Pattern and leaves every Pattern made     *)
(* before it, its receiver among them, as it was.                          *)
(***************************************************************************)
C15_TransformsLeaveReceiver ==
    [][pats' # pats =>
          /\ Len(pats') = Len(pats) + 1
          /\ \A k \in DOMAIN pats : pats'[k] = pats[k]]_vars

\* a chain of two transforms, each result differing from its receiver
C15_Witness ==
    /\ Len(pats) = 3
    /\ pats[1].op = "init"
    /\ pats[2].from = 1 /\ pats[2].grid # pats[1].grid
    /\ pats[3].from = 2 /\ pats[3].grid # pats[2].grid

(***************************************************************************)
(* C16: no call on the board, an insert of the Pattern included, changes   *)
(* the Pattern's grid.                                                     *)
(***************************************************************************)
C16_InsertKeepsPattern == [][gameVars' # gameVars => pats' = pats]_vars

\* the Pattern inserted, then a generation that has changed the board
C16_Witness ==
    /\ pc = "idle"
    /\ call.op = "insert"
    /\ call.err = "none"
    /\ gen = 1
    /\ pats[1].grid = call.pattern
    /\ LiveCells(board) # {}
    /\ board # Placed(size, call.pattern, call.location[1], call.location[2])

(***************************************************************************)
(* C18: rotate(a).rotate(b) is rotate(a + b); flip_vertical then           *)
(* flip_horizontal is rotate(2); flip_diag then flip_vertical is           *)
(* rotate(1); flip_vertical twice and flip_diag twice give the first       *)
(* receiver's grid.                                                        *)
(***************************************************************************)
C18_TransformsCompose ==
    \A k \in MadeOfMade :
        LET m == pats[k].from
            g == Receiver(m)
            h == pats[k].grid
        IN  /\ (pats[m].op = "rotate" /\ pats[k].op = "rotate")
                  => h = Rot90(g, pats[m].n + pats[k].n)
            /\ (pats[m].op = "flip_vertical" /\ pats[k].op = "flip_horizontal")
                  => h = Rot90(g, 2)
            /\ (pats[m].op = "flip_diag" /\ pats[k].op = "flip_vertical")
                  => h = Rot90(g, 1)
            /\ (pats[m].op = "flip_vertical" /\ pats[k].op = "flip_vertical") => h = g
            /\ (pats[m].op = "flip_diag" /\ pats[k].op = "flip_diag") => h = g

\* rotate(3) then rotate(-5) on a lopsided grid
C18_Witness ==
    /\ Len(pats) = 3
    /\ Lopsided
    /\ pats[2].op = "rotate" /\ pats[2].n = 3
    /\ pats[3].op = "rotate" /\ pats[3].n = -5

====
